---------------------------- MODULE Spec2Model ----------------------------
(* Model of uart_comm/main/uart_comm.c: the CRC-8 routine calc_crc8, the   *)
(* frame validator handle_packet and the read/respond loop of app_main.    *)
(* Bytes are naturals in 0..255, lengths are C ints.                       *)
EXTENDS Integers, Sequences, FiniteSets, TLC

(***************************************************************************)
(* Program constants (#define lines of uart_comm.c).                       *)
(***************************************************************************)
BUF_SIZE == 1024
HEADER == 170
END == 187
HANDSHAKE_REQ == 177
HANDSHAKE_RESP == 85
ACK == 6
NACK == 21

(***************************************************************************)
(* Bounds of the model.  MaxReads caps the number of uart_read_bytes calls *)
(* of one run; MaxPayload is the longest payload over PayloadBytes that    *)
(* the peer sends, besides the extreme payload lengths of EdgePayloadLens. *)
(***************************************************************************)
MaxReads == 3
MaxPayload == 1

Byte == 0..255

(* The value of a cell of buffer[] that no read has written yet: the array *)
(* is an uninitialised automatic variable, so such a cell may hold any     *)
(* byte.                                                                   *)
Indeterminate == -1

(***************************************************************************)
(* Bitwise helpers on naturals (C operators ^ and &).                      *)
(***************************************************************************)
RECURSIVE Xor(_, _)
Xor(a, b) ==
    IF a = 0 THEN b
    ELSE IF b = 0 THEN a
    ELSE (((a % 2) + (b % 2)) % 2) + (2 * Xor(a \div 2, b \div 2))

(* crc & 0x80 on a value below 256 *)
MsbSet(crc) == (crc \div 128) % 2 = 1

(* uint8_t conversion of an int result *)
U8(x) == x % 256

(***************************************************************************)
(* calc_crc8: lines 25-38.  CrcShift is one pass of the inner loop body,   *)
(* CrcBits the eight passes made for one input byte.                       *)
(***************************************************************************)
CrcShiftNoPolynomial(crc) == U8(crc * 2)

CrcShift(crc) ==
    IF MsbSet(crc) THEN U8(Xor(crc * 2, 7)) ELSE U8(crc * 2)

RECURSIVE CrcBits(_, _)
CrcBits(crc, j) ==
    IF j = 8 THEN crc ELSE CrcBits(CrcShift(crc), j + 1)

(* the inner loop acts on crc ^ data[i] alone; its result is tabulated *)
CrcTable == [x \in Byte |-> CrcBits(x, 0)]

(* the outer loop over data[lo .. hi] (1-based), entered with accumulator  *)
(* crc; the range is walked in index order, split in halves to keep the    *)
(* evaluation shallow                                                      *)
RECURSIVE CrcFrom(_, _, _, _)
CrcFrom(crc, data, lo, hi) ==
    IF lo > hi THEN crc
    ELSE IF lo = hi THEN CrcTable[Xor(crc, data[lo])]
    ELSE LET mid == (lo + hi) \div 2
             left == CrcFrom(crc, data, lo, mid)
         IN  IF left \in Byte THEN CrcFrom(left, data, mid + 1, hi) ELSE left

(* data is the byte sequence data[0 .. len-1] of the C call *)
calc_crc8InitFF(data) == CrcFrom(255, data, 1, Len(data))

calc_crc8(data) == CrcFrom(0, data, 1, Len(data))

(***************************************************************************)
(* The receive buffer.  uart_read_bytes always stores at buffer[0] on,     *)
(* so the cells written so far form a prefix of the array: the variable    *)
(* buffer holds that prefix, every cell beyond it is still indeterminate.  *)
(* Cell is the C expression data[i] (i counted from 0).                    *)
(***************************************************************************)
Cell(data, i) ==
    IF i >= 0 /\ i < Len(data) THEN data[i + 1] ELSE Indeterminate

(* the values a read of data[i] can produce *)
Vals(data, i) ==
    IF Cell(data, i) = Indeterminate THEN Byte ELSE {Cell(data, i)}

(* buffer after uart_read_bytes stored the bytes of s at its start *)
Store(buf, s) ==
    [k \in 1..(IF Len(s) > Len(buf) THEN Len(s) ELSE Len(buf)) |->
        IF k <= Len(s) THEN s[k] ELSE buf[k]]

(***************************************************************************)
(* send_byte: lines 55-59.  The bytes one call puts on the wire.           *)
(***************************************************************************)
send_byte(val) == <<val>>

(***************************************************************************)
(* handle_packet: lines 77-102.  data is the receive buffer, len the       *)
(* length returned by the read.  The result is the set of byte sequences   *)
(* the call can write: one element when every cell it reads is             *)
(* determinate, both answers when the CRC comparison reads a cell that     *)
(* holds an indeterminate value.                                           *)
(***************************************************************************)
(* line 78 *)
FramingErrorNoHeader(h, e) == e /= END

FramingErrorNoEnd(h, e) == h /= HEADER

FramingError(h, e) == h /= HEADER \/ e /= END

(* line 84: int len against uint8_t total_len *)
LengthMismatchTruncated(len, total_len) == U8(len) /= total_len

LengthMismatchShorterOnly(len, total_len) == len < total_len

LengthMismatch(len, total_len) == len /= total_len

(* line 90: uint8_t payload_len = total_len - 4 *)
PayloadLenOffByOne(total_len) == U8(total_len - 3)

PayloadLen(total_len) == U8(total_len - 4)

(* lines 91-101 *)
CrcCheck(data, total_len) ==
    LET payload_len == PayloadLen(total_len)
        payload == [k \in 1..payload_len |-> Cell(data, 2 + (k - 1))]
        crc_received == Cell(data, 2 + payload_len)
    IN  IF crc_received = Indeterminate
           \/ \E k \in 1..payload_len : payload[k] = Indeterminate
        THEN {send_byte(ACK), send_byte(NACK)}
        ELSE IF crc_received = calc_crc8(payload)
             THEN {send_byte(ACK)}
             ELSE {send_byte(NACK)}

(* the parameter len declared uint8_t instead of int *)
handle_packetByteLen(data, len) ==
    UNION { IF FramingError(h, e)
            THEN {send_byte(NACK)}
            ELSE UNION { IF LengthMismatch(U8(len), total_len)
                         THEN {send_byte(NACK)}
                         ELSE CrcCheck(data, total_len)
                         : total_len \in Vals(data, 1) }
            : h \in Vals(data, 0), e \in Vals(data, U8(len) - 1) }

(* a length mismatch is fatal: the call does not return *)
handle_packetAborts(data, len) ==
    UNION { IF FramingError(h, e)
            THEN {send_byte(NACK)}
            ELSE UNION { IF LengthMismatch(len, total_len)
                         THEN {}
                         ELSE CrcCheck(data, total_len)
                         : total_len \in Vals(data, 1) }
            : h \in Vals(data, 0), e \in Vals(data, len - 1) }

handle_packet(data, len) ==
    UNION { IF FramingError(h, e)
            THEN {send_byte(NACK)}
            ELSE UNION { IF LengthMismatch(len, total_len)
                         THEN {send_byte(NACK)}
                         ELSE CrcCheck(data, total_len)
                         : total_len \in Vals(data, 1) }
            : h \in Vals(data, 0), e \in Vals(data, len - 1) }

(***************************************************************************)
(* The indexes of data[] that handle_packet (lines 78, 83, 92) and         *)
(* calc_crc8 (line 28, on data + 2) read for a span of len bytes.  The ||  *)
(* of line 78 reads data[len - 1] only when data[0] is HEADER.             *)
(***************************************************************************)
ReadIndexes(data, len) ==
    {0} \cup
    UNION { IF h /= HEADER THEN {}
            ELSE {len - 1} \cup
                 UNION { IF FramingError(h, e) THEN {}
                         ELSE {1} \cup
                              UNION { IF LengthMismatch(len, total_len)
                                      THEN {}
                                      ELSE 2..(2 + PayloadLen(total_len))
                                      : total_len \in Vals(data, 1) }
                         : e \in Vals(data, len - 1) }
            : h \in Vals(data, 0) }

(***************************************************************************)
(* app_main: lines 105-128.                                                *)
(***************************************************************************)
(* line 114 *)
HasDataNonZero(len) == len /= 0

HasData(len) == len > 0

(* line 117 *)
IsHandshakeAnyLength(buf, len) == Cell(buf, 0) = HANDSHAKE_REQ

IsHandshakeAnyByte(buf, len) == len = 1

IsHandshake(buf, len) == len = 1 /\ Cell(buf, 0) = HANDSHAKE_REQ

(***************************************************************************)
(* What the peer can send in one read.  A transmission is laid out as a    *)
(* frame [h, l, payload, c, e] in which every field is either the right    *)
(* one or a wrong one, or is a short span of one to three bytes, or is one *)
(* of three long spans.                                                    *)
(***************************************************************************)
PayloadBytes == {72, 105}
HeaderBytes == {HEADER, HANDSHAKE_REQ}
EndBytes == {END, 0}
OneBytes == {HEADER, END, HANDSHAKE_REQ, 1}

Fill(n, b) == [k \in 1..n |-> b]

(* the longest payload whose total length fits the length byte, and the    *)
(* first one whose total length does not                                   *)
EdgePayloadLens == {251, 252}

Payloads ==
    UNION {[1..n -> PayloadBytes] : n \in 0..MaxPayload}
    \cup {Fill(n, 0) : n \in EdgePayloadLens}

Frame(h, l, p, c, e) == <<h, l>> \o p \o <<c, e>>

(* the data packet of the wire protocol for payload p *)
MakePacket(p) == Frame(HEADER, U8(4 + Len(p)), p, calc_crc8(p), END)

FrameSpans ==
    {Frame(h, U8(4 + Len(p) + dl), p, U8(calc_crc8(p) + dc), e) :
        h \in HeaderBytes, dl \in {0, 1}, p \in Payloads,
        dc \in {0, 1}, e \in EndBytes}

ShortSpans ==
    {<<b>> : b \in OneBytes}
    \cup {<<h, e>> : h \in HeaderBytes, e \in EndBytes \cup {2}}
    \cup {<<h, l, e>> : h \in HeaderBytes, l \in {3, 4}, e \in EndBytes}

(* 258 bytes that leave buffer[257] equal to the CRC-8 of END followed by  *)
(* the 254 bytes of buffer[3..256]                                         *)
Leftover258 == Fill(257, 0) \o <<calc_crc8(<<END>> \o Fill(254, 0))>>

(* 260 bytes: a valid empty-payload packet followed by 256 more bytes, the *)
(* last one END; 260 is 4 modulo 256                                       *)
Wrap260 == MakePacket(<<>>) \o Fill(255, 0) \o <<END>>

(* a read that fills the whole buffer *)
Full1024 == <<HEADER, 0>> \o Fill(BUF_SIZE - 3, 0) \o <<END>>

LongSpans == {Leftover258, Wrap260, Full1024}

Spans == FrameSpans \cup ShortSpans \cup LongSpans

(***************************************************************************)
(* State.                                                                  *)
(*   buffer  the written prefix of uint8_t buffer[BUF_SIZE]                *)
(*   len     the value the last uart_read_bytes returned                   *)
(*   pc      "read": about to call uart_read_bytes (line 113);             *)
(*           "dispatch": the read has returned (line 114)                  *)
(*   tx      every byte written with uart_write_bytes so far               *)
(*   resp    the bytes written by the last finished iteration              *)
(*   reads   number of uart_read_bytes calls made                          *)
(*   path    the branch the last finished iteration took:                  *)
(*           "none" before the first, "idle" (len <= 0), "handshake"       *)
(*           (lines 118-120) or "packet" (line 125)                        *)
(***************************************************************************)
VARIABLES buffer, len, pc, tx, resp, reads, path

vars == <<buffer, len, pc, tx, resp, reads, path>>

Init ==
    /\ buffer = <<>>
    /\ len = 0
    /\ pc = "read"
    /\ tx = <<>>
    /\ resp = <<>>
    /\ reads = 0
    /\ path = "none"

(* line 113: the read returns n > 0 bytes, stored from buffer[0] on *)
ReadBytes ==
    /\ pc = "read"
    /\ reads < MaxReads
    /\ \E s \in Spans :
          /\ Len(s) <= BUF_SIZE
          /\ buffer' = Store(buffer, s)
          /\ len' = Len(s)
    /\ pc' = "dispatch"
    /\ reads' = reads + 1
    /\ UNCHANGED <<tx, resp, path>>

(* line 113: the read times out (0) or fails (-1); buffer is untouched *)
ReadNothing ==
    /\ pc = "read"
    /\ reads < MaxReads
    /\ len' \in {0, -1}
    /\ pc' = "dispatch"
    /\ reads' = reads + 1
    /\ UNCHANGED <<buffer, tx, resp, path>>

(* line 114 false: straight to the next iteration *)
NoData ==
    /\ pc = "dispatch"
    /\ ~HasData(len)
    /\ pc' = "read"
    /\ path' = "idle"
    /\ resp' = <<>>
    /\ UNCHANGED <<buffer, len, tx, reads>>

(* lines 117-121 without the continue of line 120 *)
HandshakeFallThrough ==
    /\ pc = "dispatch"
    /\ HasData(len)
    /\ IsHandshake(buffer, len)
    /\ \E w \in handle_packet(buffer, len) :
          resp' = send_byte(HANDSHAKE_RESP) \o w
    /\ tx' = tx \o resp'
    /\ pc' = "read"
    /\ path' = "handshake"
    /\ UNCHANGED <<buffer, len, reads>>

(* lines 117-121 *)
Handshake ==
    /\ pc = "dispatch"
    /\ HasData(len)
    /\ IsHandshake(buffer, len)
    /\ resp' = send_byte(HANDSHAKE_RESP)
    /\ tx' = tx \o resp'
    /\ pc' = "read"
    /\ path' = "handshake"
    /\ UNCHANGED <<buffer, len, reads>>

(* lines 122-125, with packets refused until a handshake has been          *)
(* answered, as wait_for_handshake (lines 61-74) would have it             *)
PacketAfterHandshakeOnly ==
    /\ pc = "dispatch"
    /\ HasData(len)
    /\ ~IsHandshake(buffer, len)
    /\ resp' \in (IF \E k \in 1..Len(tx) : tx[k] = HANDSHAKE_RESP
                  THEN handle_packet(buffer, len)
                  ELSE {send_byte(NACK)})
    /\ tx' = tx \o resp'
    /\ pc' = "read"
    /\ path' = "packet"
    /\ UNCHANGED <<buffer, len, reads>>

(* lines 122-125, with the last byte of the span overwritten by 0 *)
PacketClobbers ==
    /\ pc = "dispatch"
    /\ HasData(len)
    /\ ~IsHandshake(buffer, len)
    /\ resp' \in handle_packet(buffer, len)
    /\ tx' = tx \o resp'
    /\ buffer' = [buffer EXCEPT ![len] = 0]
    /\ pc' = "read"
    /\ path' = "packet"
    /\ UNCHANGED <<len, reads>>

(* lines 122-125 *)
Packet ==
    /\ pc = "dispatch"
    /\ HasData(len)
    /\ ~IsHandshake(buffer, len)
    /\ resp' \in handle_packet(buffer, len)
    /\ tx' = tx \o resp'
    /\ pc' = "read"
    /\ path' = "packet"
    /\ UNCHANGED <<buffer, len, reads>>

Next == ReadBytes \/ ReadNothing \/ NoData \/ Handshake \/ Packet

Spec == Init /\ [][Next]_vars

(***************************************************************************)
(* Derived notions used by the properties.                                 *)
(***************************************************************************)
(* the bytes of the current read *)
Span == IF len > 0 THEN SubSeq(buffer, 1, len) ELSE <<>>

(* Span[2 .. len-2): the payload field of a span of four bytes or more *)
PayloadOf(s) == SubSeq(s, 3, Len(s) - 2)

TypeOK ==
    /\ buffer \in Seq(Byte) /\ Len(buffer) <= BUF_SIZE
    /\ len \in -1..BUF_SIZE
    /\ pc \in {"read", "dispatch"}
    /\ tx \in Seq(Byte) /\ resp \in Seq(Byte)
    /\ reads \in 0..MaxReads
    /\ path \in {"none", "idle", "handshake", "packet"}

(***************************************************************************)
(* Properties.  At pc = "read" the variables len, buffer, path and resp    *)
(* still describe the iteration that has just finished.                    *)
(***************************************************************************)

(* C1: a read whose bytes are exactly the data packet                      *)
(* [0xAA, 4+len(p), p..., calc_crc8(p), 0xBB] of a payload p of 0 to 251   *)
(* bytes is answered by handle_packet with ACK, whatever earlier reads     *)
(* left in the buffer.                                                     *)
C1_ValidPacketAcked ==
    \A p \in Payloads :
        (pc = "read" /\ Len(p) <= 251 /\ Span = MakePacket(p))
            => (path = "packet" /\ resp = <<ACK>>)

(* a 255-byte packet is acknowledged on top of the leftovers of a longer   *)
(* earlier read                                                            *)
C1_Witness ==
    /\ pc = "read" /\ reads >= 2
    /\ Span = MakePacket(Fill(251, 0))
    /\ Len(buffer) > len
    /\ resp = <<ACK>>

(* C2: every read that returns n > 0 bytes is followed by exactly one      *)
(* write of exactly one byte before the next read is issued, and nothing   *)
(* is written by the read itself.                                          *)
C2_OneWritePerRead ==
    [][ /\ (pc = "dispatch" /\ len > 0)
            => (pc' = "read" /\ Len(tx') = Len(tx) + 1)
        /\ (pc = "read") => (tx' = tx) ]_vars

(* a handshake and then a packet, each answered once *)
C2_Witness ==
    /\ pc = "read" /\ path = "packet" /\ len > 0
    /\ Len(tx) = 2 /\ tx[1] = HANDSHAKE_RESP /\ reads = 2

(* C3: HANDSHAKE_RESP is written if and only if the read returned exactly  *)
(* one byte and that byte is 0xB1; that read does not reach handle_packet, *)
(* and a read of two or more bytes goes to handle_packet even when it      *)
(* begins with 0xB1.                                                       *)
C3_HandshakeIff ==
    [][ (pc = "dispatch") =>
          LET written == SubSeq(tx', Len(tx) + 1, Len(tx'))
              single == len = 1 /\ buffer[1] = HANDSHAKE_REQ
          IN  /\ (\E k \in 1..Len(written) : written[k] = HANDSHAKE_RESP)
                    <=> single
              /\ single => path' = "handshake"
              /\ (len >= 2) => path' = "packet" ]_vars

(* a handshake answered with 0x55, then a longer read starting with 0xB1   *)
(* that is validated as a packet                                           *)
C3_Witness ==
    /\ pc = "read" /\ path = "packet"
    /\ len >= 2 /\ buffer[1] = HANDSHAKE_REQ
    /\ tx = <<HANDSHAKE_RESP, NACK>>

(* C4: when the read returns zero or a negative length the iteration       *)
(* writes nothing and goes back to reading.                                *)
C4_SilentOnNoData ==
    [][ (pc = "dispatch" /\ len <= 0) => (tx' = tx /\ pc' = "read") ]_vars

(* a failed read after an answered one *)
C4_Witness ==
    /\ pc = "read" /\ path = "idle" /\ len < 0
    /\ Len(tx) = 1 /\ reads = 2

(* C5: a span given to handle_packet whose first byte is not 0xAA is       *)
(* answered with NACK, whatever its other bytes are.                       *)
C5_BadHeaderNacked ==
    (pc = "read" /\ path = "packet" /\ buffer[1] /= HEADER)
        => resp = <<NACK>>

(* only the header is wrong: length byte, CRC and terminator are right *)
C5_Witness ==
    /\ pc = "read" /\ path = "packet"
    /\ len >= 5 /\ buffer[1] /= HEADER
    /\ buffer[2] = len /\ buffer[len] = END
    /\ buffer[len - 1] = calc_crc8(PayloadOf(Span))
    /\ resp = <<NACK>>

(* C6: a span given to handle_packet whose last byte is not 0xBB is        *)
(* answered with NACK, even when header, length byte and CRC are right.    *)
C6_BadEndNacked ==
    (pc = "read" /\ path = "packet" /\ buffer[len] /= END)
        => resp = <<NACK>>

(* only the terminator is wrong *)
C6_Witness ==
    /\ pc = "read" /\ path = "packet"
    /\ len >= 5 /\ buffer[len] /= END
    /\ buffer[1] = HEADER /\ buffer[2] = len
    /\ buffer[len - 1] = calc_crc8(PayloadOf(Span))
    /\ resp = <<NACK>>

(* C7: a span of two bytes or more given to handle_packet whose second     *)
(* byte differs from the number of bytes read is answered with NACK.       *)
C7_LengthMismatchNacked ==
    (pc = "read" /\ path = "packet" /\ len >= 2 /\ buffer[2] /= len)
        => resp = <<NACK>>

(* 260 bytes with length byte 4: right markers, equal modulo 256 only *)
C7_Witness ==
    /\ pc = "read" /\ path = "packet"
    /\ len > 255 /\ buffer[2] = U8(len)
    /\ buffer[1] = HEADER /\ buffer[len] = END
    /\ resp = <<NACK>>

(* C8: every span of fewer than four bytes that reaches handle_packet is   *)
(* answered with NACK.                                                     *)
C8_ShortSpanNacked ==
    (pc = "read" /\ path = "packet" /\ len < 4) => resp = <<NACK>>

(* C9: a read of exactly one byte other than 0xB1 goes through the packet  *)
(* path and is answered with exactly one NACK.                             *)
C9_SingleByteNacked ==
    (pc = "read" /\ len = 1 /\ buffer[1] /= HANDSHAKE_REQ)
        => (path = "packet" /\ resp = <<NACK>>)

(* the single byte 0xAA, received over the leftovers of an earlier read *)
C9_Witness ==
    /\ pc = "read" /\ len = 1 /\ buffer[1] = HEADER
    /\ Len(buffer) > 1
    /\ path = "packet" /\ resp = <<NACK>>

(* C10: whenever ACK is written for a read of len bytes, len >= 4, the     *)
(* span starts with 0xAA, ends with 0xBB, carries len in its second byte   *)
(* and the CRC-8 of span[2 .. len-2) in span[len-2].                       *)
C10_AckOnlyWellFormed ==
    (pc = "read" /\ path = "packet"
       /\ \E k \in 1..Len(resp) : resp[k] = ACK)
        => /\ len >= 4
           /\ buffer[1] = HEADER
           /\ buffer[len] = END
           /\ buffer[2] = len
           /\ buffer[len - 1] = calc_crc8(PayloadOf(Span))

(* C11: the response written for a non-empty read is a function of the     *)
(* bytes of that read alone: it is the one answer handle_packet gives to   *)
(* the span by itself, whatever earlier reads left in buffer[] beyond it.  *)
C11_ResponseOfSpanAlone ==
    (pc = "read" /\ path = "packet") => handle_packet(Span, len) = {resp}

(***************************************************************************)
(* Single-bit corruption of the payload of a data packet.  The session has *)
(* just read one packet in which one payload bit arrived inverted; length  *)
(* byte, CRC byte and markers are those of the packet as sent.             *)
(***************************************************************************)
(* payloads whose total length fits the length byte *)
ValidPayloads == {p \in Payloads : Len(p) <= 251}

(* s with bit b of its k-th byte inverted *)
FlipBit(s, k, b) == [s EXCEPT ![k] = Xor(s[k], 2 ^ b)]

(* s and t differ in exactly one bit, and that bit lies in the payload *)
OnePayloadBitApart(s, t) ==
    /\ Len(s) = Len(t)
    /\ \E k \in 3..(Len(s) - 2) :
          /\ s[k] /= t[k]
          /\ Xor(s[k], t[k]) \in {2 ^ b : b \in 0..7}
          /\ \A j \in 1..Len(s) : j /= k => s[j] = t[j]

FlippedPackets ==
    UNION {{FlipBit(MakePacket(p), 2 + k, b) :
                k \in 1..Len(p), b \in 0..7} : p \in ValidPayloads}

InitBitFlip ==
    /\ buffer \in FlippedPackets
    /\ len = Len(buffer)
    /\ pc = "dispatch"
    /\ tx = <<>>
    /\ resp = <<>>
    /\ reads = 1
    /\ path = "none"

SpecBitFlip == InitBitFlip /\ [][Packet]_vars

(* C12: a valid packet of a payload of 1 to 251 bytes in which one payload *)
(* bit is inverted, with length, CRC and marker bytes unchanged, is        *)
(* answered with NACK.                                                     *)
C12_BitFlipNacked ==
    \A p \in ValidPayloads :
        (pc = "read" /\ len = Len(p) + 4
           /\ OnePayloadBitApart(Span, MakePacket(p)))
            => (path = "packet" /\ resp = <<NACK>>)

(* the lowest bit of the last byte of a 251-byte payload *)
C12_Witness ==
    /\ pc = "read" /\ path = "packet"
    /\ Span = FlipBit(MakePacket(Fill(251, 0)), 253, 0)
    /\ resp = <<NACK>>

(***************************************************************************)
(* calc_crc8 as a function of its input.  The input is any byte sequence   *)
(* of up to MaxCrcLen bytes over CrcBytes, or the nine ASCII digits of the *)
(* customary CRC check string; the call stores its result in resp.         *)
(***************************************************************************)
MaxCrcLen == 3

CrcBytes == {0, 1, 7, 128, 255}

CrcInputs ==
    UNION {[1..n -> CrcBytes] : n \in 0..MaxCrcLen}
    \cup {<<49, 50, 51, 52, 53, 54, 55, 56, 57>>}

InitCrc ==
    /\ buffer \in CrcInputs
    /\ len = Len(buffer)
    /\ pc = "crc"
    /\ tx = <<>>
    /\ resp = <<>>
    /\ reads = 0
    /\ path = "none"

CalcCrc ==
    /\ pc = "crc"
    /\ resp' = <<calc_crc8(buffer)>>
    /\ pc' = "done"
    /\ UNCHANGED <<buffer, len, tx, reads, path>>

SpecCrc == InitCrc /\ [][CalcCrc]_vars

(* The reference CRC-8: the message is the polynomial over GF(2) whose     *)
(* coefficients are its bits, most significant bit of the first byte       *)
(* first; the CRC is the remainder of message * x^8 divided by             *)
(* x^8 + x^2 + x + 1, with no initial value and no final XOR.              *)
Generator == <<1, 0, 0, 0, 0, 0, 1, 1, 1>>

ByteBits(x) == [k \in 1..8 |-> (x \div (2 ^ (8 - k))) % 2]

MessageBits(data) ==
    [k \in 1..(8 * Len(data) + 8) |->
        IF k <= 8 * Len(data)
        THEN ByteBits(data[((k - 1) \div 8) + 1])[((k - 1) % 8) + 1]
        ELSE 0]

(* one step of the long division: cancel the coefficient at position k *)
Cancel(bits, k) ==
    IF bits[k] = 0 THEN bits
    ELSE [j \in 1..Len(bits) |->
            IF j >= k /\ j <= k + 8
            THEN (bits[j] + Generator[(j - k) + 1]) % 2
            ELSE bits[j]]

RECURSIVE Divide(_, _)
Divide(bits, k) ==
    IF k > Len(bits) - 8 THEN bits ELSE Divide(Cancel(bits, k), k + 1)

RECURSIVE BitsValue(_, _)
BitsValue(bits, k) ==
    IF k = 0 THEN 0 ELSE bits[k] + (2 * BitsValue(bits, k - 1))

RefCrc8(data) ==
    LET rem == Divide(MessageBits(data), 1)
        n == Len(rem)
    IN  BitsValue(SubSeq(rem, n - 7, n), 8)

(* C13: calc_crc8 returns 0x00 for the empty sequence and, for every byte  *)
(* sequence, the reference MSB-first CRC-8 with polynomial 0x07, initial   *)
(* value 0 and no final XOR; the result is a byte.                         *)
C13_CrcIsReference ==
    (pc = "done") =>
        /\ resp = <<RefCrc8(buffer)>>
        /\ resp[1] \in Byte
        /\ (buffer = <<>>) => (resp = <<0>>)

(* the check string "123456789" gives 0xF4 *)
C13_Witness ==
    /\ pc = "done"
    /\ buffer = <<49, 50, 51, 52, 53, 54, 55, 56, 57>>
    /\ resp = <<244>>

(***************************************************************************)
(* Retransmission.  The first read delivers any span; each later read      *)
(* delivers the bytes of the read before it once more.                     *)
(***************************************************************************)
ReadFirst ==
    /\ pc = "read"
    /\ reads = 0
    /\ \E s \in Spans :
          /\ Len(s) <= BUF_SIZE
          /\ buffer' = Store(buffer, s)
          /\ len' = Len(s)
    /\ pc' = "dispatch"
    /\ reads' = reads + 1
    /\ UNCHANGED <<tx, resp, path>>

ReadAgain ==
    /\ pc = "read"
    /\ reads > 0
    /\ reads < MaxReads
    /\ buffer' = Store(buffer, Span)
    /\ len' = Len(Span)
    /\ pc' = "dispatch"
    /\ reads' = reads + 1
    /\ UNCHANGED <<tx, resp, path>>

NextTwice == ReadFirst \/ ReadAgain \/ Handshake \/ Packet

SpecTwice == Init /\ [][NextTwice]_vars

(* s is a data packet of the wire protocol *)
IsPacket(s) ==
    \E p \in ValidPayloads : Len(s) = Len(p) + 4 /\ s = MakePacket(p)

(* C14: consecutive reads that deliver the same valid packet are each      *)
(* answered with ACK, and handling a read leaves the bytes of the span     *)
(* unchanged.                                                              *)
C14_ValidatingTwice ==
    [][ /\ (pc = "dispatch") => (buffer' = buffer /\ len' = len)
        /\ (pc' = "read" /\ reads' >= 2 /\ IsPacket(Span')) =>
              /\ Len(tx') = reads'
              /\ \A k \in 1..Len(tx') : tx'[k] = ACK ]_vars

(* the 255-byte packet, read and acknowledged twice *)
C14_Witness ==
    /\ pc = "read" /\ reads = 2
    /\ Span = MakePacket(Fill(251, 0))
    /\ tx = <<ACK, ACK>>

(* C15: the loop has no terminating or stuck state: the session is always *)
(* either about to read or dispatching a read, whatever was read           *)
(* handle_packet returns with a response so that the iteration finishes,   *)
(* and a valid packet is answered with ACK after any earlier reads,        *)
(* malformed ones included.                                                *)
C15_NeverStuck ==
    /\ pc \in {"read", "dispatch"}
    /\ (pc = "dispatch" /\ HasData(len) /\ ~IsHandshake(buffer, len))
          => handle_packet(buffer, len) /= {}
    /\ (pc = "read" /\ reads > 0 /\ IsPacket(Span))
          => (LET n == Len(tx) IN n > 0 /\ tx[n] = ACK)

(* two rejected reads, then a valid packet *)
C15_Witness ==
    /\ pc = "read" /\ reads = 3
    /\ IsPacket(Span)
    /\ tx = <<NACK, NACK, ACK>>

(* C16: for every span of len bytes given to handle_packet, every index    *)
(* that handle_packet or calc_crc8 reads lies in 0..len-1.                 *)
C16_ReadsWithinSpan ==
    (pc = "dispatch" /\ HasData(len) /\ ~IsHandshake(buffer, len))
        => ReadIndexes(buffer, len) \subseteq 0..(len - 1)

(* C17: the session keeps no handshake state: a valid data packet is       *)
(* answered with ACK whether or not a handshake request came before it,    *)
(* and a handshake request is answered with 0x55 every time it arrives.    *)
C17_NoHandshakeState ==
    \A seen \in BOOLEAN :
        (/\ pc = "read" /\ reads > 0
         /\ seen = (\E k \in 1..(Len(tx) - 1) : tx[k] = HANDSHAKE_RESP))
        => /\ IsPacket(Span) => (path = "packet" /\ resp = <<ACK>>)
           /\ (Span = <<HANDSHAKE_REQ>>)
                 => (path = "handshake" /\ resp = <<HANDSHAKE_RESP>>)

(* a packet acknowledged before any handshake, then two handshakes *)
C17_Witness ==
    /\ pc = "read" /\ reads = 3
    /\ Span = <<HANDSHAKE_REQ>>
    /\ tx = <<ACK, HANDSHAKE_RESP, HANDSHAKE_RESP>>

(* C18: every read of more than 255 bytes is answered with NACK: the       *)
(* length byte is compared with the untruncated int length, so a long read *)
(* whose length equals its length byte modulo 256 is rejected too.         *)
C18_LongReadNacked ==
    (pc = "read" /\ len > 255) => (path = "packet" /\ resp = <<NACK>>)

(* 260 bytes that begin with a valid 4-byte packet and end with END *)
C18_Witness ==
    /\ pc = "read" /\ len = 260
    /\ SubSeq(buffer, 1, 4) = MakePacket(<<>>)
    /\ buffer[260] = END
    /\ resp = <<NACK>>

(***************************************************************************)
(* Two data packets received back to back in one read.                     *)
(***************************************************************************)
TwoPackets ==
    {MakePacket(p) \o MakePacket(q) : p \in ValidPayloads, q \in ValidPayloads}

ReadTwoPackets ==
    /\ pc = "read"
    /\ reads < MaxReads
    /\ \E s \in TwoPackets :
          /\ Len(s) <= BUF_SIZE
          /\ buffer' = Store(buffer, s)
          /\ len' = Len(s)
    /\ pc' = "dispatch"
    /\ reads' = reads + 1
    /\ UNCHANGED <<tx, resp, path>>

NextTwoPackets == ReadTwoPackets \/ Packet

SpecTwoPackets == Init /\ [][NextTwoPackets]_vars

(* C19: a read that is the concatenation of two valid packets is answered  *)
(* with exactly one NACK and no ACK: the span is validated as one frame.   *)
C19_TwoPacketsOneNack ==
    [][ (pc = "dispatch" /\ Span \in TwoPackets)
            => (tx' = tx \o <<NACK>> /\ pc' = "read") ]_vars

(* two 255-byte packets in one read of 510 bytes *)
C19_Witness ==
    /\ pc = "read" /\ path = "packet"
    /\ len = 510
    /\ Span = MakePacket(Fill(251, 0)) \o MakePacket(Fill(251, 0))
    /\ resp = <<NACK>>
    /\ \A k \in 1..Len(tx) : tx[k] = NACK

=============================================================================
